---- MODULE Spec2Model ----
(***************************************************************************)
(* Model of financial_mcp_server.py: the market data cache                 *)
(* (get_cached_data with its exchange-suffix fallback) as a state machine  *)
(* of concurrent callers, and the rebalancer (bilancia_portafoglio) as a   *)
(* function applied to bounded inputs.                                     *)
(***************************************************************************)
EXTENDS Integers, Sequences, FiniteSets, TLC

(***************************************************************************)
(* Bounds of the model.                                                    *)
(***************************************************************************)
\* the clock stops advancing after MaxTicks ticks
MaxTicks == 2

\* the two concurrent callers of get_cached_data
Procs == {"c1", "c2"}
\* the ticker symbols asked for (periodo is fixed, so one cache key each)
Symbols == {"SPY", "ENI"}

\* What is explored: two callers racing on one key, and one caller working
\* on two keys.
Scenarios == {[callers |-> Procs, symbols |-> {"SPY"}],
              [callers |-> {"c1"}, symbols |-> Symbols]}

\* seconds by which datetime.now() advances in one tick
Deltas == {150}
MaxClock == MaxTicks * 150

(***************************************************************************)
(* Program constants.                                                      *)
(***************************************************************************)
CACHE_DURATION == 300

\* the fallback list of get_cached_data; variant 0 is the primary symbol,
\* variant i the symbol with Suffixes[i] appended
Suffixes == <<".MI", ".PA", ".L", ".DE">>
Variants == 0..Len(Suffixes)

(***************************************************************************)
(* The provider (yfinance) is external: each call of history() either      *)
(* raises, returns an empty frame or returns data; each read of .info      *)
(* either raises or returns the metadata of the symbol variant asked.      *)
(***************************************************************************)
HistoryOutcomes == {"raise", "empty", "data"}
InfoOutcomes == {"raise", "ok"}

\* A DataFrame: empty, or the series of the symbol variant it was fetched
\* for.
EmptyDF == [empty |-> TRUE, sym |-> 0]
DataDF(v) == [empty |-> FALSE, sym |-> v]
\* The metadata mapping of symbol variant v.
InfoOf(v) == [sym |-> v]
NoInfo == [sym |-> 0]

VARIABLES
    callers,        \* the callers that are active (fixed by the scenario)
    symbols,        \* the symbols they ask for (fixed by the scenario)
    clock,          \* datetime.now().timestamp()
    data_cache,     \* _data_cache: cache_key -> {"df", "info", "timestamp"}
    pc,             \* per caller: position inside get_cached_data
    ticker,         \* per caller: the argument (the cache key)
    now,            \* per caller: local now
    df,             \* per caller: local df
    info,           \* per caller: local info
    suffix,         \* per caller: index of the loop over the suffixes
    ret,            \* per caller: the pair returned
    seen,           \* history: what the lookup of the current call found
    nfetch,         \* history: times the current call entered the fetch part
    firstData,      \* history: first suffix whose history() had data (0: none)
    lastTried,      \* history: last suffix whose history() was called
    attemptOk,      \* history: some attempt gave a series and its metadata
    lastWriter,     \* history: per key, the caller that wrote it last
    holdings_correnti, target_allocation, risultati, fase,
    op,             \* the operation that is called (its entry point)
    args,           \* its arguments
    esiti,          \* history: what the provider and the indicators did
    risultato,      \* what the operation returned, or the exception raised
    out             \* what the tool entry point returned to the client

cacheVars == <<callers, symbols, clock, data_cache, pc, ticker, now, df, info, suffix, ret,
               seen, nfetch, firstData, lastTried, attemptOk, lastWriter>>
bilVars == <<holdings_correnti, target_allocation, risultati, fase>>
opVars == <<op, args, esiti, risultato, out>>
vars == <<cacheVars, bilVars, opVars>>

(***************************************************************************)
(* get_cached_data                                                         *)
(***************************************************************************)
NoReturn == [df |-> EmptyDF, info |-> NoInfo]

\* a faulty variant: the comparison of line 43 inverted
IsFreshInverted(t, cached) == t - cached.timestamp > CACHE_DURATION

\* line 43: the freshness test of a cached entry
IsFresh(t, cached) == t - cached.timestamp < CACHE_DURATION

\* a faulty variant: line 62 updating the entry in place, the info of an entry that
\* exists being kept
StoreEntryMerging(cache, key, d, i, t) ==
    [k \in (DOMAIN cache) \cup {key} |->
        IF k = key
        THEN [df |-> d,
              info |-> IF key \in DOMAIN cache THEN cache[key].info ELSE i,
              timestamp |-> t]
        ELSE cache[k]]

\* line 62: _data_cache[cache_key] = {"df": df, "info": info, "timestamp": now}
StoreEntry(cache, key, d, i, t) ==
    [k \in (DOMAIN cache) \cup {key} |->
        IF k = key THEN [df |-> d, info |-> i, timestamp |-> t] ELSE cache[k]]

\* the locals and the history of a caller outside a call
Reset(p) ==
    /\ now' = [now EXCEPT ![p] = 0]
    /\ df' = [df EXCEPT ![p] = EmptyDF]
    /\ info' = [info EXCEPT ![p] = NoInfo]
    /\ suffix' = [suffix EXCEPT ![p] = 0]
    /\ ret' = [ret EXCEPT ![p] = NoReturn]
    /\ seen' = [seen EXCEPT ![p] = "none"]
    /\ nfetch' = [nfetch EXCEPT ![p] = 0]
    /\ firstData' = [firstData EXCEPT ![p] = 0]
    /\ lastTried' = [lastTried EXCEPT ![p] = 0]
    /\ attemptOk' = [attemptOk EXCEPT ![p] = FALSE]

\* lines 36-39: the call starts; cache_key is built and now is read
Begin(p) ==
    /\ p \in callers
    /\ pc[p] = "idle"
    /\ \E t \in symbols : ticker' = [ticker EXCEPT ![p] = t]
    /\ now' = [now EXCEPT ![p] = clock]
    /\ pc' = [pc EXCEPT ![p] = "lookup"]
    /\ UNCHANGED <<callers, symbols, clock, data_cache, df, info, suffix, ret, seen, nfetch,
                   firstData, lastTried, attemptOk, lastWriter, bilVars, opVars>>

\* a faulty variant: the lookup dropping the entry it finds expired
LookupEvicting(p) ==
    /\ pc[p] = "lookup"
    /\ LET key == ticker[p] IN
       IF key \in DOMAIN data_cache /\ IsFresh(now[p], data_cache[key])
       THEN /\ ret' = [ret EXCEPT ![p] = [df |-> data_cache[key].df,
                                          info |-> data_cache[key].info]]
            /\ seen' = [seen EXCEPT ![p] = "hit"]
            /\ pc' = [pc EXCEPT ![p] = "returned"]
            /\ UNCHANGED <<nfetch, data_cache>>
       ELSE /\ seen' = [seen EXCEPT ![p] =
                   IF key \in DOMAIN data_cache THEN "stale" ELSE "miss"]
            /\ nfetch' = [nfetch EXCEPT ![p] = @ + 1]
            /\ pc' = [pc EXCEPT ![p] = "history"]
            /\ data_cache' = [k \in (DOMAIN data_cache) \ {key} |-> data_cache[k]]
            /\ UNCHANGED ret
    /\ UNCHANGED <<callers, symbols, clock, ticker, now, df, info, suffix,
                   firstData, lastTried, attemptOk, lastWriter, bilVars, opVars>>

\* lines 41-44: the lookup; a fresh entry is returned at once
Lookup(p) ==
    /\ pc[p] = "lookup"
    /\ LET key == ticker[p] IN
       IF key \in DOMAIN data_cache /\ IsFresh(now[p], data_cache[key])
       THEN /\ ret' = [ret EXCEPT ![p] = [df |-> data_cache[key].df,
                                          info |-> data_cache[key].info]]
            /\ seen' = [seen EXCEPT ![p] = "hit"]
            /\ pc' = [pc EXCEPT ![p] = "returned"]
            /\ UNCHANGED nfetch
       ELSE /\ seen' = [seen EXCEPT ![p] =
                   IF key \in DOMAIN data_cache THEN "stale" ELSE "miss"]
            /\ nfetch' = [nfetch EXCEPT ![p] = @ + 1]
            /\ pc' = [pc EXCEPT ![p] = "history"]
            /\ UNCHANGED ret
    /\ UNCHANGED <<callers, symbols, clock, data_cache, ticker, now, df, info, suffix,
                   firstData, lastTried, attemptOk, lastWriter, bilVars, opVars>>

\* lines 46-47: asset.history() of the primary symbol, outside any try
PrimaryHistory(p) ==
    /\ pc[p] = "history"
    /\ \E o \in HistoryOutcomes :
        CASE o = "raise" ->
                /\ pc' = [pc EXCEPT ![p] = "raised"]
                /\ UNCHANGED df
          [] o = "empty" ->
                /\ df' = [df EXCEPT ![p] = EmptyDF]
                /\ pc' = [pc EXCEPT ![p] = "info"]
          [] o = "data" ->
                /\ df' = [df EXCEPT ![p] = DataDF(0)]
                /\ pc' = [pc EXCEPT ![p] = "info"]
    /\ UNCHANGED <<callers, symbols, clock, data_cache, ticker, now, info, suffix, ret, seen,
                   nfetch, firstData, lastTried, attemptOk, lastWriter,
                   bilVars, opVars>>

\* lines 48-50: asset.info of the primary symbol, outside any try, then the
\* test df.empty that opens the loop over the suffixes
PrimaryInfo(p) ==
    /\ pc[p] = "info"
    /\ \E o \in InfoOutcomes :
        IF o = "raise"
        THEN /\ pc' = [pc EXCEPT ![p] = "raised"]
             /\ UNCHANGED <<info, suffix, attemptOk>>
        ELSE /\ info' = [info EXCEPT ![p] = InfoOf(0)]
             /\ IF df[p].empty
                THEN /\ pc' = [pc EXCEPT ![p] = "suffix_history"]
                     /\ suffix' = [suffix EXCEPT ![p] = 1]
                     /\ UNCHANGED attemptOk
                ELSE /\ pc' = [pc EXCEPT ![p] = "store"]
                     /\ attemptOk' = [attemptOk EXCEPT ![p] = TRUE]
                     /\ UNCHANGED suffix
    /\ UNCHANGED <<callers, symbols, clock, data_cache, ticker, now, df, ret, seen, nfetch,
                   firstData, lastTried, lastWriter, bilVars, opVars>>

\* line 60 (continue) and the end of the loop of line 51: the next suffix,
\* or the store after the last one
Continue(p) ==
    IF suffix[p] < Len(Suffixes)
    THEN /\ suffix' = [suffix EXCEPT ![p] = @ + 1]
         /\ pc' = [pc EXCEPT ![p] = "suffix_history"]
    ELSE /\ pc' = [pc EXCEPT ![p] = "store"]
         /\ UNCHANGED suffix

\* lines 51-56: df = asset.history() of the next suffix, inside the try
SuffixHistory(p) ==
    /\ pc[p] = "suffix_history"
    /\ lastTried' = [lastTried EXCEPT ![p] = suffix[p]]
    /\ \E o \in HistoryOutcomes :
        CASE o = "raise" ->
                /\ Continue(p)
                /\ UNCHANGED <<df, firstData>>
          [] o = "empty" ->
                /\ df' = [df EXCEPT ![p] = EmptyDF]
                /\ Continue(p)
                /\ UNCHANGED firstData
          [] o = "data" ->
                /\ df' = [df EXCEPT ![p] = DataDF(suffix[p])]
                /\ firstData' = [firstData EXCEPT ![p] =
                                    IF @ = 0 THEN suffix[p] ELSE @]
                /\ pc' = [pc EXCEPT ![p] = "suffix_info"]
                /\ UNCHANGED suffix
    /\ UNCHANGED <<callers, symbols, clock, data_cache, ticker, now, info, ret, seen, nfetch,
                   attemptOk, lastWriter, bilVars, opVars>>

\* lines 57-60: info = asset.info of the suffix whose frame is not empty,
\* then break; an exception here is caught and the loop continues
SuffixInfo(p) ==
    /\ pc[p] = "suffix_info"
    /\ \E o \in InfoOutcomes :
        IF o = "raise"
        THEN /\ Continue(p)
             /\ UNCHANGED <<info, attemptOk>>
        ELSE /\ info' = [info EXCEPT ![p] = InfoOf(suffix[p])]
             /\ attemptOk' = [attemptOk EXCEPT ![p] = TRUE]
             /\ pc' = [pc EXCEPT ![p] = "store"]
             /\ UNCHANGED suffix
    /\ UNCHANGED <<callers, symbols, clock, data_cache, ticker, now, df, ret, seen, nfetch,
                   firstData, lastTried, lastWriter, bilVars, opVars>>

\* lines 62-63: the entry is written and the pair returned
Store(p) ==
    /\ pc[p] = "store"
    /\ data_cache' = StoreEntry(data_cache, ticker[p], df[p], info[p], now[p])
    /\ ret' = [ret EXCEPT ![p] = [df |-> df[p], info |-> info[p]]]
    /\ lastWriter' = [lastWriter EXCEPT ![ticker[p]] = p]
    /\ pc' = [pc EXCEPT ![p] = "returned"]
    /\ UNCHANGED <<callers, symbols, clock, ticker, now, df, info, suffix, seen, nfetch,
                   firstData, lastTried, attemptOk, bilVars, opVars>>

\* the caller has consumed the result (or the exception) of its call
Finish(p) ==
    /\ pc[p] \in {"returned", "raised"}
    /\ pc' = [pc EXCEPT ![p] = "idle"]
    /\ Reset(p)
    /\ UNCHANGED <<callers, symbols, clock, data_cache, ticker, lastWriter, bilVars, opVars>>

\* time passes
Tick ==
    /\ \E d \in Deltas :
        /\ clock + d <= MaxClock
        /\ clock' = clock + d
    /\ UNCHANGED <<callers, symbols, data_cache, pc, ticker, now, df, info, suffix, ret, seen,
                   nfetch, firstData, lastTried, attemptOk, lastWriter,
                   bilVars, opVars>>

(***************************************************************************)
(* bilancia_portafoglio                                                    *)
(*                                                                         *)
(* Percentages are whole numbers of units of 1/300 %: the hundredths that  *)
(* round(x, 2) keeps (3 units) and the equal weights 100/n (n <= 6) are    *)
(* then exact, and a weight may lie between two hundredths.                *)
(***************************************************************************)
Pct == 3 * 100

Abs(x) == IF x < 0 THEN -x ELSE x

\* round(x, 2) of a value x >= 0: the nearest hundredth (3 units)
Round2(x) == ((x + 1) \div 3) * 3

\* dict.get(ticker, 0)
Get(d, t) == IF t \in DOMAIN d THEN d[t] ELSE 0

\* a faulty variant: the weight 100 / (n + 1) instead of 100 / n
DefaultTargetOffByOne(hc) ==
    [t \in DOMAIN hc |-> (100 * Pct) \div (Cardinality(DOMAIN hc) + 1)]

\* lines 359-361: the equal-weight target built when none is given
DefaultTarget(hc) ==
    [t \in DOMAIN hc |-> (100 * Pct) \div Cardinality(DOMAIN hc)]

\* lines 359-363: the target in use; an Optional is [some, val]
Target(hc, ta) == IF ta.some THEN ta.val ELSE DefaultTarget(hc)

\* lines 367-369: diff = target - corrente
Diff(hc, tgt, t) == Get(tgt, t) - Get(hc, t)

\* a faulty variant: the threshold of line 371 taken inclusive
RilevanteInclusive(diff) == Abs(diff) >= 1 * Pct

\* line 371: the drifts that are kept
Rilevante(diff) == Abs(diff) > 1 * Pct

\* lines 365-372: differenze, in the order in which the set of line 366 is
\* iterated
Differenze(hc, tgt, order) ==
    SelectSeq(order, LAMBDA t : Rilevante(Diff(hc, tgt, t)))

\* a faulty variant: reverse=True forgotten at line 374, an ascending sort
SortedInsertAscending(s, x, hc, tgt) ==
    LET key(t) == Abs(Diff(hc, tgt, t))
        ahead == {i \in 1..Len(s) : key(s[i]) <= key(x)}
        n == Cardinality(ahead)
    IN  SubSeq(s, 1, n) \o <<x>> \o SubSeq(s, n + 1, Len(s))

\* line 374: sorted(..., key=abs(diff), reverse=True) is stable; x, which
\* comes after the elements of s, goes behind those of equal key
SortedInsert(s, x, hc, tgt) ==
    LET key(t) == Abs(Diff(hc, tgt, t))
        ahead == {i \in 1..Len(s) : key(s[i]) >= key(x)}
        n == Cardinality(ahead)
    IN  SubSeq(s, 1, n) \o <<x>> \o SubSeq(s, n + 1, Len(s))

RECURSIVE Sorted(_, _, _)
Sorted(seq, hc, tgt) ==
    IF seq = <<>> THEN <<>>
    ELSE SortedInsert(Sorted(SubSeq(seq, 1, Len(seq) - 1), hc, tgt),
                      seq[Len(seq)], hc, tgt)

\* a faulty variant: the priority thresholds of lines 380 and 387 taken inclusive
PrioritaInclusive(diff) ==
    IF Abs(diff) >= 10 * Pct THEN "Alta"
    ELSE IF Abs(diff) >= 5 * Pct THEN "Media" ELSE "Bassa"

\* lines 380 and 387
Priorita(diff) ==
    IF Abs(diff) > 10 * Pct THEN "Alta"
    ELSE IF Abs(diff) > 5 * Pct THEN "Media" ELSE "Bassa"

\* lines 375-388: the operation suggested for one ticker
Operazione(t, diff) ==
    IF diff > 0
    THEN [ticker |-> t, azione |-> "ACQUISTA",
          percentuale |-> Round2(diff), priorita |-> Priorita(diff)]
    ELSE [ticker |-> t, azione |-> "VENDI",
          percentuale |-> Round2(Abs(diff)), priorita |-> Priorita(diff)]

RECURSIVE SumAbsSet(_, _, _)
SumAbsSet(S, hc, tgt) ==
    IF S = {} THEN 0
    ELSE LET t == CHOOSE x \in S : TRUE IN
         Abs(Diff(hc, tgt, t)) + SumAbsSet(S \ {t}, hc, tgt)

\* a faulty variant: line 393 summing the drift of every ticker, kept or not
SumAbsOverAll(seq, hc, tgt) == SumAbsSet((DOMAIN hc) \cup (DOMAIN tgt), hc, tgt)

\* line 393: sum(abs(d) for d in differenze.values())
RECURSIVE SumAbs(_, _, _)
SumAbs(seq, hc, tgt) ==
    IF seq = <<>> THEN 0
    ELSE Abs(Diff(hc, tgt, seq[1])) + SumAbs(Tail(seq), hc, tgt)

\* a faulty variant: the threshold of line 398 taken inclusive
AnalisiInclusive(n_operazioni, drift_totale) ==
    [numero_operazioni |-> n_operazioni,
     drift_totale |-> Round2(drift_totale),
     necessita_ribilanciamento |-> drift_totale >= 10 * Pct,
     costo_stimato_commissioni |-> n_operazioni * 2,
     consiglio |-> IF drift_totale > 15 * Pct THEN "Ribilancia ora"
                   ELSE IF drift_totale > 10 * Pct
                        THEN "Ribilancia tra qualche mese"
                        ELSE "Non necessario"]

\* lines 392-401: the summary
Analisi(n_operazioni, drift_totale) ==
    [numero_operazioni |-> n_operazioni,
     drift_totale |-> Round2(drift_totale),
     necessita_ribilanciamento |-> drift_totale > 10 * Pct,
     costo_stimato_commissioni |-> n_operazioni * 2,
     consiglio |-> IF drift_totale > 15 * Pct THEN "Ribilancia ora"
                   ELSE IF drift_totale > 10 * Pct
                        THEN "Ribilancia tra qualche mese"
                        ELSE "Non necessario"]

\* lines 350-403; order is the iteration order of the set of line 366
bilancia_portafoglio(hc, ta, order) ==
    LET tgt == Target(hc, ta)
        differenze == Differenze(hc, tgt, order)
        ordinate == Sorted(differenze, hc, tgt)
        operazioni == [i \in 1..Len(ordinate) |->
                          Operazione(ordinate[i], Diff(hc, tgt, ordinate[i]))]
    IN  [portafoglio_corrente |-> hc,
         operazioni_suggerite |-> operazioni,
         nuova_allocazione |-> tgt,
         target_allocation |-> tgt,
         analisi |-> Analisi(Len(operazioni), SumAbs(differenze, hc, tgt))]

\* the sequences that list every element of S once
Orders(S) ==
    {s \in [1..Cardinality(S) -> S] : \A i, j \in 1..Cardinality(S) :
                                          s[i] = s[j] => i = j}

\* the tickers of either map (line 366)
Union(hc, tgt) == (DOMAIN hc) \cup (DOMAIN tgt)

\* a call of bilancia_portafoglio on the inputs drawn
BilanciaPortafoglio ==
    /\ fase = "input"
    /\ \E order \in Orders(Union(holdings_correnti,
                                 Target(holdings_correnti, target_allocation))) :
          risultati' = bilancia_portafoglio(holdings_correnti,
                                            target_allocation, order)
    /\ fase' = "done"
    /\ UNCHANGED <<cacheVars, holdings_correnti, target_allocation, opVars>>

\* the tickers and weights the inputs are drawn from
NumTickers == 3
TickerNames == <<"A", "B", "C", "D", "E">>
Tickers == {TickerNames[i] : i \in 1..NumTickers}
Weights == {1 * Pct, 5 * Pct, 12 * Pct + 100}
HoldingSets == UNION {[S -> Weights] : S \in SUBSET Tickers}
NoTarget == [some |-> FALSE, val |-> <<>>]

\* rebalance({"A": 60, "B": 40}, {"A": 50, "B": 50}), the scenario of the
\* specification
EsempioCorrente == [t \in {"A", "B"} |-> IF t = "A" THEN 60 * Pct ELSE 40 * Pct]
EsempioTarget == [t \in {"A", "B"} |-> 50 * Pct]

\* no caller is inside get_cached_data
InitLocals ==
    /\ pc = [p \in Procs |-> "idle"]
    /\ ticker = [p \in Procs |-> "SPY"]
    /\ now = [p \in Procs |-> 0]
    /\ df = [p \in Procs |-> EmptyDF]
    /\ info = [p \in Procs |-> NoInfo]
    /\ suffix = [p \in Procs |-> 0]
    /\ ret = [p \in Procs |-> NoReturn]
    /\ seen = [p \in Procs |-> "none"]
    /\ nfetch = [p \in Procs |-> 0]
    /\ firstData = [p \in Procs |-> 0]
    /\ lastTried = [p \in Procs |-> 0]
    /\ attemptOk = [p \in Procs |-> FALSE]
    /\ lastWriter = [k \in Symbols |-> "nobody"]

InitCache ==
    /\ clock = 0
    /\ data_cache = <<>>
    /\ InitLocals

InitBilIdle ==
    /\ holdings_correnti = <<>>
    /\ target_allocation = NoTarget
    /\ risultati = <<>>
    /\ fase = "idle"

\* no operation of the portfolio layer has been called
InitOpIdle ==
    /\ op = "none"
    /\ args = <<>>
    /\ esiti = <<>>
    /\ risultato = <<>>
    /\ out = <<>>

Init ==
    /\ \E sc \in Scenarios : callers = sc.callers /\ symbols = sc.symbols
    /\ InitCache
    /\ InitBilIdle
    /\ InitOpIdle

Next ==
    \/ \E p \in Procs : Begin(p)
    \/ \E p \in Procs : Lookup(p)
    \/ \E p \in Procs : PrimaryHistory(p)
    \/ \E p \in Procs : PrimaryInfo(p)
    \/ \E p \in Procs : SuffixHistory(p)
    \/ \E p \in Procs : SuffixInfo(p)
    \/ \E p \in Procs : Store(p)
    \/ \E p \in Procs : Finish(p)
    \/ Tick

Spec == Init /\ [][Next]_vars

\* the rebalancer applied to every input of the bounded sets
InitBilancia ==
    /\ callers = {}
    /\ symbols = {}
    /\ InitCache
    /\ InitOpIdle
    /\ fase = "input"
    /\ risultati = <<>>
    /\ \/ /\ holdings_correnti \in HoldingSets
          /\ target_allocation \in
                {[some |-> TRUE, val |-> t] : t \in HoldingSets} \cup {NoTarget}
       \/ /\ holdings_correnti = EsempioCorrente
          /\ target_allocation = [some |-> TRUE, val |-> EsempioTarget]

NextBilancia == BilanciaPortafoglio

SpecBilancia == InitBilancia /\ [][NextBilancia]_vars

(***************************************************************************)
(* The portfolio layer and the tool entry points. An operation is one      *)
(* step: it runs from its call to its return or its exception, and each    *)
(* get_cached_data it calls is the function below, lines 36-63 as a whole. *)
(* A behaviour of the provider says what history() and .info do for each   *)
(* symbol variant during one call.                                         *)
(***************************************************************************)
Behaviour(h, i) == [history |-> h, info |-> i]

\* the symbol is listed under its own name
Listed == Behaviour([v \in Variants |-> IF v = 0 THEN "data" ELSE "empty"],
                    [v \in Variants |-> "ok"])
\* the symbol is listed under its ".MI" variant only
Milan == Behaviour([v \in Variants |-> IF v = 1 THEN "data" ELSE "empty"],
                   [v \in Variants |-> "ok"])
\* the symbol is not listed anywhere
Unknown == Behaviour([v \in Variants |-> "empty"], [v \in Variants |-> "ok"])
\* the provider cannot be reached
Unreachable == Behaviour([v \in Variants |-> "raise"], [v \in Variants |-> "raise"])

Behaviours == {Listed, Milan, Unknown, Unreachable}

\* what a call gives back: a value, or an exception with its message
Return(v) == [raised |-> FALSE, val |-> v]
Raise(e) == [raised |-> TRUE, exc |-> e]
\* a message: its text and the values formatted into it
Msg(testo, valori) == [testo |-> testo, valori |-> valori]

\* lines 51-60: the loop over the suffixes, from Suffixes[i] on
RECURSIVE SuffixLoop(_, _, _, _)
SuffixLoop(i, d, inf, b) ==
    IF i > Len(Suffixes) THEN Return([df |-> d, info |-> inf])
    ELSE CASE b.history[i] = "raise" -> SuffixLoop(i + 1, d, inf, b)
           [] b.history[i] = "empty" -> SuffixLoop(i + 1, EmptyDF, inf, b)
           [] b.history[i] = "data" ->
                IF b.info[i] = "ok"
                THEN Return([df |-> DataDF(i), info |-> InfoOf(i)])
                ELSE SuffixLoop(i + 1, DataDF(i), inf, b)

\* lines 46-60: the fetch; the primary history() and .info are outside any
\* try
Fetch(b) ==
    IF b.history[0] = "raise" \/ b.info[0] = "raise"
    THEN Raise(Msg("provider", <<>>))
    ELSE IF b.history[0] = "data"
         THEN Return([df |-> DataDF(0), info |-> InfoOf(0)])
         ELSE SuffixLoop(1, EmptyDF, InfoOf(0), b)

\* line 38: cache_key = f"{ticker}_{periodo}"
CacheKey(tk, periodo) == <<tk, periodo>>

\* lines 36-63: the outcome of a call at time t under behaviour b, with the
\* cache it leaves; fetched tells whether the provider was invoked
get_cached_data(cache, tk, periodo, t, b) ==
    LET cache_key == CacheKey(tk, periodo) IN
    IF cache_key \in DOMAIN cache /\ IsFresh(t, cache[cache_key])
    THEN [res |-> Return([df |-> cache[cache_key].df,
                          info |-> cache[cache_key].info]),
          cache |-> cache, fetched |-> FALSE]
    ELSE LET f == Fetch(b) IN
         IF f.raised
         THEN [res |-> f, cache |-> cache, fetched |-> TRUE]
         ELSE [res |-> f,
               cache |-> StoreEntry(cache, cache_key, f.val.df, f.val.info, t),
               fetched |-> TRUE]

\* a holdings dict is the sequence of its items, in insertion order
Keys(h) == [i \in 1..Len(h) |-> h[i].ticker]
Values(h) == [i \in 1..Len(h) |-> h[i].peso]

RECURSIVE Sum(_)
Sum(s) == IF s = <<>> THEN 0 ELSE s[1] + Sum(Tail(s))

\* lines 207 and 329: the tolerance on the sum of the weights, 0.1
Tolleranza == Pct \div 10

\* a faulty variant: the test of line 329 taken inclusive
FuoriTolleranzaInclusive(total) == Abs(total - 100 * Pct) >= Tolleranza

\* line 329: abs(totale_percentuale - 100.0) > 0.1
FuoriTolleranza(total) == Abs(total - 100 * Pct) > Tolleranza

\* a faulty variant: the test of line 207 taken inclusive
SommaAnomalaInclusive(total) == Abs(total - 100 * Pct) >= Tolleranza

\* line 207: abs(total - 100.0) > 0.1
SommaAnomala(total) == Abs(total - 100 * Pct) > Tolleranza

NoMeta == [some |-> FALSE, val |-> <<>>]

\* lines 318-347; t is datetime.now()
crea_portafoglio(nome, holdings, meta, t) ==
    IF nome = ""
    THEN Raise(Msg("Il nome del portafoglio e' obbligatorio", <<>>))
    ELSE IF holdings = <<>>
    THEN Raise(Msg("Il portafoglio deve contenere almeno un asset", <<>>))
    ELSE LET totale_percentuale == Sum(Values(holdings)) IN
         IF FuoriTolleranza(totale_percentuale)
         THEN Raise(Msg("Le percentuali degli asset devono sommare a 100%, attuale: {}%",
                        <<totale_percentuale>>))
         ELSE Return([nome |-> nome,
                      tipo |-> "portfolio",
                      versione |-> "1.0",
                      data_creazione |-> t,
                      holdings |-> holdings,
                      meta |-> IF meta.some THEN meta.val ELSE <<>>,
                      validazione |->
                          [percentuale_totale |-> totale_percentuale,
                           numero_asset |-> Len(holdings),
                           asset_validi |-> Keys(holdings)]])

(***************************************************************************)
(* valuta_portafoglio. The indicators are fixed functions of the series;   *)
(* their values stand for the series they were computed from. A metric of  *)
(* the portfolio is represented by the operands of its formula.            *)
(***************************************************************************)
\* what the indicator functions of lines 220-225 do on a series with data
IndicatorOutcomes == {"ok", "raise"}

\* line 220: df['Close'].iloc[-1]
Prezzo(d) == 100 + d.sym
\* lines 143-147
calcola_volatilita(d) == 1 + d.sym
\* line 225: the daily returns of the series fetched for ticker tk
Rendimenti(tk, d) == [of |-> tk, df |-> d]

\* the elements of a sequence
Range(s) == {s[i] : i \in DOMAIN s}

\* d[k] = v on a dict
Put(d, k, v) == [x \in (DOMAIN d) \cup {k} |-> IF x = k THEN v ELSE d[x]]

\* the record kept of one pass of a loop over tickers: whether the provider
\* was invoked, how the pass ended, and the pair it worked on
Esito(tk, g, kind) ==
    [ticker |-> tk, fetched |-> g.fetched, kind |-> kind,
     df |-> IF g.res.raised THEN EmptyDF ELSE g.res.val.df,
     info |-> IF g.res.raised THEN NoInfo ELSE g.res.val.info]

\* a faulty variant: a ticker that fails leaves no entry
ErroreAssetSilent(acc, g, tk, m, kind) ==
    [acc EXCEPT !.cache = g.cache,
                !.esiti = Append(@, Esito(tk, g, kind))]

\* lines 217 and 239: the error marker of a ticker that fails
ErroreAsset(acc, g, tk, m, kind) ==
    [acc EXCEPT !.cache = g.cache,
                !.analisi_per_asset = Put(@, tk, [error |-> m]),
                !.esiti = Append(@, Esito(tk, g, kind))]

\* lines 213-239: one pass of the loop, for the item h of holdings, under
\* the behaviour e.b of the provider and the outcome e.ind of the
\* indicators; acc holds the cache and the locals
ValutaAsset(acc, h, e, t) ==
    LET g == get_cached_data(acc.cache, h.ticker, "1y", t, e.b)
        failed(m, kind) == ErroreAsset(acc, g, h.ticker, m, kind)
    IN  IF g.res.raised THEN failed(g.res.exc, "fetch_raised")
        ELSE IF g.res.val.df.empty
        THEN failed(Msg("Dati non disponibili", <<>>), "empty")
        ELSE IF e.ind = "raise"
        THEN failed(Msg("indicator", <<>>), "indicator_raised")
        ELSE LET d == g.res.val.df
                 volatilita == calcola_volatilita(d)
             IN  [cache |-> g.cache,
                  rendimenti_giornalieri |->
                      Append(acc.rendimenti_giornalieri, Rendimenti(h.ticker, d)),
                  volatilita_assets |-> Put(acc.volatilita_assets, h.ticker, volatilita),
                  analisi_per_asset |->
                      Put(acc.analisi_per_asset, h.ticker,
                          [peso_percentuale |-> h.peso,
                           prezzo_corrente |-> Prezzo(d),
                           volatilita_annua |-> volatilita,
                           settore |-> g.res.val.info.sym]),
                  esiti |-> Append(acc.esiti, Esito(h.ticker, g, "ok"))]

RECURSIVE ValutaLoop(_, _, _, _, _)
ValutaLoop(acc, holdings, i, amb, t) ==
    IF i > Len(holdings) THEN acc
    ELSE ValutaLoop(ValutaAsset(acc, holdings[i], amb[holdings[i].ticker], t),
                    holdings, i + 1, amb, t)

\* zip(a, b): the pairs up to the shorter length
Zip(a, b) ==
    [i \in 1..(IF Len(a) < Len(b) THEN Len(a) ELSE Len(b)) |->
        [ticker |-> a[i], rend |-> b[i]]]

\* lines 241-261: the metrics of the portfolio
MetrichePortafoglio(holdings, rendimenti_giornalieri, volatilita_assets) ==
    IF Len(rendimenti_giornalieri) >= 2
    THEN LET df_rendimenti == Zip(Keys(holdings), rendimenti_giornalieri)
             pesi_array == Values(holdings)
             vol_array == [i \in 1..Len(holdings) |->
                              Get(volatilita_assets, holdings[i].ticker)]
         IN  [volatilita_portafoglio |-> [pesi |-> pesi_array, vol |-> vol_array],
              numero_effettivo_asset |-> [pesi |-> Values(holdings)],
              diversificazione_score |-> [pesi |-> Values(holdings),
                                          n |-> Len(holdings)],
              correlazione_media |-> [colonne |-> df_rendimenti]]
    ELSE <<>>

\* lines 196-272; amb gives, for each ticker, the behaviour of the provider
\* and the outcome of the indicators; the recommendations of lines 263-268,
\* read by no property, are left out
valuta_portafoglio(cache, holdings, amb, t) ==
    LET total == Sum(Values(holdings))
        fin == ValutaLoop([cache |-> cache, rendimenti_giornalieri |-> <<>>,
                           volatilita_assets |-> <<>>, analisi_per_asset |-> <<>>,
                           esiti |-> <<>>],
                          holdings, 1, amb, t)
        risultati_ == [composizione |-> holdings,
                       asset_count |-> Len(holdings),
                       analisi_per_asset |-> fin.analisi_per_asset,
                       metriche_portafoglio |->
                           MetrichePortafoglio(holdings, fin.rendimenti_giornalieri,
                                               fin.volatilita_assets)]
    IN  [res |-> Return(IF SommaAnomala(total)
                        THEN risultati_ @@
                             ("warning" :> Msg("Percentuali sommano a {}%", <<total>>))
                        ELSE risultati_),
         cache |-> fin.cache,
         esiti |-> fin.esiti]

(***************************************************************************)
(* proponi_portafoglio                                                     *)
(***************************************************************************)
Item(tk, p) == [ticker |-> tk, peso |-> p]

\* lines 277-287, keyed by <<rischio, obiettivo>>; the weights are whole
\* percentages
templates ==
    (<<"conservativo", "bilanciato">> :>
        <<Item("BND", 40), Item("VTI", 25), Item("VXUS", 15), Item("VNQ", 10), Item("GLD", 10)>>) @@
    (<<"moderato", "bilanciato">> :>
        <<Item("VTI", 35), Item("VXUS", 25), Item("BND", 20), Item("VNQ", 10), Item("QQQ", 10)>>) @@
    (<<"aggressivo", "bilanciato">> :>
        <<Item("QQQ", 30), Item("VTI", 25), Item("VXUS", 20), Item("ARKK", 15), Item("BND", 10)>>) @@
    (<<"conservativo", "crescita">> :>
        <<Item("VTI", 35), Item("BND", 30), Item("VXUS", 20), Item("VNQ", 15)>>) @@
    (<<"moderato", "crescita">> :>
        <<Item("VTI", 40), Item("QQQ", 25), Item("VXUS", 20), Item("VNQ", 15)>>) @@
    (<<"aggressivo", "crescita">> :>
        <<Item("QQQ", 40), Item("ARKK", 25), Item("VTI", 20), Item("VXUS", 15)>>) @@
    (<<"conservativo", "reddito">> :>
        <<Item("BND", 45), Item("VYM", 30), Item("VNQ", 15), Item("VTI", 10)>>) @@
    (<<"moderato", "reddito">> :>
        <<Item("VYM", 35), Item("BND", 30), Item("VNQ", 20), Item("VTI", 15)>>) @@
    (<<"aggressivo", "reddito">> :>
        <<Item("VYM", 40), Item("VNQ", 25), Item("VTI", 20), Item("BND", 15)>>)

\* lines 289-290: templates.get(template_key, templates["moderato_bilanciato"])
Allocazione(rischio, obiettivo) ==
    IF <<rischio, obiettivo>> \in DOMAIN templates
    THEN templates[<<rischio, obiettivo>>]
    ELSE templates[<<"moderato", "bilanciato">>]

\* line 291: (perc / 100) * capitale
Importo(perc, capitale) == (perc * capitale) \div 100

\* lines 294-306: one pass of the loop; an empty series leaves no entry
ProponiAsset(acc, h, capitale, e, t) ==
    LET g == get_cached_data(acc.cache, h.ticker, "1y", t, e.b)
        marker == [error |-> Msg("Dati non disponibili", <<>>)]
    IN  IF g.res.raised
        THEN [cache |-> g.cache,
              analisi_assets |-> Put(acc.analisi_assets, h.ticker, marker),
              esiti |-> Append(acc.esiti, Esito(h.ticker, g, "fetch_raised"))]
        ELSE IF g.res.val.df.empty
        THEN [cache |-> g.cache,
              analisi_assets |-> acc.analisi_assets,
              esiti |-> Append(acc.esiti, Esito(h.ticker, g, "empty"))]
        ELSE IF e.ind = "raise"
        THEN [cache |-> g.cache,
              analisi_assets |-> Put(acc.analisi_assets, h.ticker, marker),
              esiti |-> Append(acc.esiti, Esito(h.ticker, g, "indicator_raised"))]
        ELSE LET d == g.res.val.df IN
             [cache |-> g.cache,
              analisi_assets |->
                  Put(acc.analisi_assets, h.ticker,
                      [prezzo |-> Prezzo(d),
                       shares |-> Importo(h.peso, capitale) \div Prezzo(d),
                       importo_effettivo |-> Importo(h.peso, capitale),
                       volatilita |-> calcola_volatilita(d)]),
              esiti |-> Append(acc.esiti, Esito(h.ticker, g, "ok"))]

RECURSIVE ProponiLoop(_, _, _, _, _, _)
ProponiLoop(acc, allocazione, i, capitale, amb, t) ==
    IF i > Len(allocazione) THEN acc
    ELSE ProponiLoop(ProponiAsset(acc, allocazione[i], capitale,
                                  amb[allocazione[i].ticker], t),
                     allocazione, i + 1, capitale, amb, t)

\* line 313: sum(a.get("importo_effettivo", 0) for a in analisi_assets.values())
RECURSIVE TotaleInvestito(_, _)
TotaleInvestito(analisi_assets, S) ==
    IF S = {} THEN 0
    ELSE LET k == CHOOSE x \in S : TRUE IN
         (IF "importo_effettivo" \in DOMAIN analisi_assets[k]
          THEN analisi_assets[k].importo_effettivo ELSE 0)
         + TotaleInvestito(analisi_assets, S \ {k})

\* lines 275-315
proponi_portafoglio(cache, capitale, obiettivo, orizzonte, rischio, amb, t) ==
    LET allocazione == Allocazione(rischio, obiettivo)
        fin == ProponiLoop([cache |-> cache, analisi_assets |-> <<>>, esiti |-> <<>>],
                           allocazione, 1, capitale, amb, t)
    IN  [res |-> Return(
            [profilo |-> [capitale |-> capitale, obiettivo |-> obiettivo,
                          orizzonte_temporale |-> orizzonte,
                          tolleranza_rischio |-> rischio],
             allocazione_percentuale |-> allocazione,
             allocazione_importi |->
                 [i \in 1..Len(allocazione) |->
                     Item(allocazione[i].ticker,
                          Importo(allocazione[i].peso, capitale))],
             analisi_assets |-> fin.analisi_assets,
             totale_investito |->
                 TotaleInvestito(fin.analisi_assets, DOMAIN fin.analisi_assets),
             note |-> Msg("Portafoglio {} con profilo {}", <<obiettivo, rischio>>)]),
         cache |-> fin.cache,
         esiti |-> fin.esiti]

(***************************************************************************)
(* ottieni_quote_ora and analisi_trend                                     *)
(***************************************************************************)
\* lines 85-91: the loop; hs[i] is what history(period="1d") does for
\* tickers[i], and an exception of it leaves the function
RECURSIVE QuoteLoop(_, _, _, _, _)
QuoteLoop(quotes, tickers, i, hs, t) ==
    IF i > Len(tickers) THEN Return(quotes)
    ELSE CASE hs[i] = "raise" -> Raise(Msg("provider", <<>>))
           [] hs[i] = "empty" -> QuoteLoop(quotes, tickers, i + 1, hs, t)
           [] hs[i] = "data" ->
                QuoteLoop(Put(quotes, tickers[i],
                              [price |-> Prezzo(DataDF(0)), timestamp |-> t]),
                          tickers, i + 1, hs, t)

\* lines 74-92
ottieni_quote_ora(tickers, hs, t) == QuoteLoop(<<>>, tickers, 1, hs, t)

\* a float that is not a number: the mean of a window longer than the
\* series
NaN == -1

\* the comparison > of two floats, false when either is not a number
Gt(a, b) == a # NaN /\ b # NaN /\ a > b

\* a faulty variant: the strong downtrend tested before the uptrend, with
\* <= for <
analisi_trendLoose(prezzo, ma_50, ma_200) ==
    [trend |-> IF Gt(prezzo, ma_50) /\ Gt(ma_50, ma_200) THEN "Rialzista Forte"
               ELSE IF ~Gt(prezzo, ma_50) /\ ~Gt(ma_50, ma_200) THEN "Ribassista Forte"
               ELSE IF Gt(prezzo, ma_50) THEN "Rialzista"
               ELSE "Ribassista",
     prezzo |-> prezzo,
     ma_50 |-> ma_50,
     ma_200 |-> ma_200]

\* lines 176-183
analisi_trend(prezzo, ma_50, ma_200) ==
    [trend |-> IF Gt(prezzo, ma_50) /\ Gt(ma_50, ma_200) THEN "Rialzista Forte"
               ELSE IF Gt(prezzo, ma_50) THEN "Rialzista"
               ELSE IF Gt(ma_50, prezzo) /\ Gt(ma_200, ma_50) THEN "Ribassista Forte"
               ELSE "Ribassista",
     prezzo |-> prezzo,
     ma_50 |-> ma_50,
     ma_200 |-> ma_200]

(***************************************************************************)
(* The tool entry points (lines 491-694). Every one is a try around its    *)
(* body, with except Exception as e: return {"error": str(e)}.             *)
(***************************************************************************)
RSI_OVERBOUGHT == 70
RSI_OVERSOLD == 30

\* lines 98-101, 104-108 and 111-121, on a series with data
calcola_rsi(d) == 50 + d.sym
calcola_momentum(d) == 2 + d.sym
calcola_macd(d) == [valore |-> 3 + d.sym, signal |-> 3, divergenza |-> d.sym]

\* a faulty variant: the except clause re-raising instead of returning
ToolWrapLeaky(r) == IF r.raised THEN r ELSE Return(r.val)

\* the try/except around risultato = operation(...); return risultato
ToolWrap(r) == IF r.raised THEN Return([error |-> r.exc]) ELSE Return(r.val)

\* the series an indicator tool works on: the one get_cached_data returned
\* when it returned a non-empty one
ConDati(g) == ~g.res.raised /\ ~g.res.val.df.empty

\* the body shared by tool_calcola_rsi, tool_calcola_momentum and
\* tool_calcola_macd (lines 493-505, 522-534, 550-561), from the outcome g of
\* get_cached_data; costruito is the result built from the series
ToolIndicatore(tk, e, g, costruito) ==
    LET body == IF g.res.raised THEN g.res
                ELSE IF g.res.val.df.empty
                THEN Return([error |-> Msg("Dati non disponibili per {}", <<tk>>)])
                ELSE IF e.ind = "raise" THEN Raise(Msg("indicator", <<>>))
                ELSE Return(costruito)
    IN  [risultato |-> g.res,
         out |-> ToolWrap(body),
         cache |-> g.cache,
         esiti |-> <<Esito(tk, g, IF g.res.raised THEN "fetch_raised"
                                  ELSE IF g.res.val.df.empty THEN "empty"
                                  ELSE IF e.ind = "raise" THEN "indicator_raised"
                                  ELSE "ok")>>]

\* lines 491-505
tool_calcola_rsi(cache, tk, periodo, e, t) ==
    LET g == get_cached_data(cache, tk, "2y", t, e.b)
    IN  ToolIndicatore(tk, e, g,
            IF ConDati(g)
            THEN [ticker |-> tk,
                  rsi |-> calcola_rsi(g.res.val.df),
                  interpretazione |->
                      IF calcola_rsi(g.res.val.df) > RSI_OVERBOUGHT
                      THEN "Sovravenduto"
                      ELSE IF calcola_rsi(g.res.val.df) < RSI_OVERSOLD
                      THEN "Sottovalutato"
                      ELSE "Neutrale"]
            ELSE <<>>)

\* lines 520-534
tool_calcola_momentum(cache, tk, periodo, e, t) ==
    LET g == get_cached_data(cache, tk, "2y", t, e.b)
    IN  ToolIndicatore(tk, e, g,
            IF ConDati(g)
            THEN [ticker |-> tk,
                  momentum |-> calcola_momentum(g.res.val.df),
                  periodo |-> periodo]
            ELSE <<>>)

\* lines 548-561: {"ticker": ..., **macd_result}
tool_calcola_macd(cache, tk, e, t) ==
    LET g == get_cached_data(cache, tk, "2y", t, e.b)
    IN  ToolIndicatore(tk, e, g,
            IF ConDati(g)
            THEN [ticker |-> tk] @@ calcola_macd(g.res.val.df)
            ELSE <<>>)

\* the calls of history() made by the loop of lines 85-91: all of them, or
\* those up to the first that raises
Invoked(hs) ==
    IF \E i \in DOMAIN hs : hs[i] = "raise"
    THEN CHOOSE i \in DOMAIN hs :
            hs[i] = "raise" /\ \A j \in 1..(i - 1) : hs[j] # "raise"
    ELSE Len(hs)

\* lines 579-588
tool_ottieni_quote_ora(cache, tickers, hs, t) ==
    LET quotes == ottieni_quote_ora(tickers, hs, t) IN
    [risultato |-> quotes,
     out |-> ToolWrap(IF quotes.raised THEN quotes
                      ELSE Return([quotes |-> quotes.val,
                                   count |-> Cardinality(DOMAIN quotes.val)])),
     cache |-> cache,
     esiti |-> [i \in 1..Invoked(hs) |->
                   [ticker |-> tickers[i], fetched |-> TRUE, kind |-> hs[i],
                    df |-> EmptyDF, info |-> NoInfo]]]

\* lines 606-612
tool_valuta_portafoglio(cache, holdings, amb, t) ==
    LET r == valuta_portafoglio(cache, holdings, amb, t) IN
    [risultato |-> r.res, out |-> ToolWrap(r.res), cache |-> r.cache,
     esiti |-> r.esiti]

\* lines 629-635
tool_proponi_portafoglio(cache, capitale, obiettivo, orizzonte, rischio, amb, t) ==
    LET r == proponi_portafoglio(cache, capitale, obiettivo, orizzonte, rischio,
                                 amb, t) IN
    [risultato |-> r.res, out |-> ToolWrap(r.res), cache |-> r.cache,
     esiti |-> r.esiti]

\* a faulty variant: the tickers of the holdings looked up before the record
\* is built
tool_crea_portafoglioFetching(cache, nome, holdings, meta, t) ==
    LET r == crea_portafoglio(nome, holdings, meta, t)
        v == valuta_portafoglio(cache, holdings,
                                [tk \in Range(Keys(holdings)) |->
                                    [b |-> Listed, ind |-> "ok"]], t)
    IN  [risultato |-> r, out |-> ToolWrap(r), cache |-> v.cache, esiti |-> v.esiti]

\* lines 659-665
tool_crea_portafoglio(cache, nome, holdings, meta, t) ==
    LET r == crea_portafoglio(nome, holdings, meta, t) IN
    [risultato |-> r, out |-> ToolWrap(r), cache |-> cache, esiti |-> <<>>]

\* lines 688-694; order is the iteration order of the set of line 366
tool_bilancia_portafoglio(cache, hc, ta, order) ==
    LET r == Return(bilancia_portafoglio(hc, ta, order)) IN
    [risultato |-> r, out |-> ToolWrap(r), cache |-> cache, esiti |-> <<>>]

(***************************************************************************)
(* The operations as steps. The operation and its arguments are drawn at   *)
(* the start; the step draws what the provider does during the call.       *)
(***************************************************************************)
\* the holdings that the portfolio operations are given have at most
\* MaxHoldings items
MaxHoldings == 3

\* the sums of weights tried: 94, 99.9, 100, 100.05, 100.1, 100.2 and 105
Totali == {94 * Pct, 100 * Pct - Tolleranza, 100 * Pct, 100 * Pct + 15,
           100 * Pct + Tolleranza, 100 * Pct + 2 * Tolleranza, 105 * Pct}

\* n holdings that sum to tot: 20% each, the last one taking the rest
Portafoglio(n, tot) ==
    [i \in 1..n |-> Item(TickerNames[i],
                         IF i < n THEN 20 * Pct ELSE tot - (n - 1) * 20 * Pct)]
\* n holdings of equal weight
Equipesato(n) == [i \in 1..n |-> Item(TickerNames[i], (100 * Pct) \div n)]

Portafogli ==
    {<<>>} \cup {Portafoglio(n, tot) : n \in 1..MaxHoldings, tot \in Totali}
           \cup {Equipesato(n) : n \in 2..MaxHoldings}

\* the conditions under which one ticker is processed: a behaviour of the
\* provider, and what the indicators do on the series if there is one
Condizioni ==
    {[b |-> b, ind |-> "ok"] : b \in Behaviours}
        \cup {[b |-> Listed, ind |-> i] : i \in IndicatorOutcomes}

\* the entries a cache holds after calls made at time 0
Warm ==
    [k \in {CacheKey(tk, p) : tk \in {"A", "VTI"}, p \in {"1y", "2y"}} |->
        [df |-> DataDF(0), info |-> InfoOf(0), timestamp |-> 0]]

\* the effect of an operation r: its outcome is kept and the cache is the
\* one it leaves
Effect(r) ==
    /\ risultato' = r.risultato
    /\ out' = r.out
    /\ esiti' = r.esiti
    /\ data_cache' = r.cache
    /\ fase' = "done"
    /\ UNCHANGED <<callers, symbols, clock, pc, ticker, now, df, info, suffix, ret,
                   seen, nfetch, firstData, lastTried, attemptOk, lastWriter,
                   holdings_correnti, target_allocation, risultati, op, args>>

Called(name) == fase = "input" /\ op = name

ToolCalcolaRsi ==
    /\ Called("tool_calcola_rsi")
    /\ \E e \in Condizioni :
          Effect(tool_calcola_rsi(data_cache, args.ticker, args.periodo, e, clock))

ToolCalcolaMomentum ==
    /\ Called("tool_calcola_momentum")
    /\ \E e \in Condizioni :
          Effect(tool_calcola_momentum(data_cache, args.ticker, args.periodo, e, clock))

ToolCalcolaMacd ==
    /\ Called("tool_calcola_macd")
    /\ \E e \in Condizioni :
          Effect(tool_calcola_macd(data_cache, args.ticker, e, clock))

ToolOttieniQuoteOra ==
    /\ Called("tool_ottieni_quote_ora")
    /\ \E hs \in [1..Len(args.tickers) -> HistoryOutcomes] :
          Effect(tool_ottieni_quote_ora(data_cache, args.tickers, hs, clock))

ToolValutaPortafoglio ==
    /\ Called("tool_valuta_portafoglio")
    /\ \E amb \in [Range(Keys(args.holdings)) -> Condizioni] :
          Effect(tool_valuta_portafoglio(data_cache, args.holdings, amb, clock))

ToolProponiPortafoglio ==
    /\ Called("tool_proponi_portafoglio")
    /\ \E amb \in [Range(Keys(Allocazione(args.rischio, args.obiettivo)))
                      -> Condizioni] :
          Effect(tool_proponi_portafoglio(data_cache, args.capitale, args.obiettivo,
                                          args.orizzonte, args.rischio, amb, clock))

ToolCreaPortafoglio ==
    /\ Called("tool_crea_portafoglio")
    /\ Effect(tool_crea_portafoglio(data_cache, args.nome, args.holdings,
                                    args.meta, clock))

ToolBilanciaPortafoglio ==
    /\ Called("tool_bilancia_portafoglio")
    /\ \E order \in Orders(Union(args.holdings_correnti,
                                 Target(args.holdings_correnti,
                                        args.target_allocation))) :
          Effect(tool_bilancia_portafoglio(data_cache, args.holdings_correnti,
                                           args.target_allocation, order))

\* analisi_trend is called on a series; its last price and its two means
\* are the arguments here
AnalisiTrend ==
    /\ Called("analisi_trend")
    /\ Effect([risultato |-> Return(analisi_trend(args.prezzo, args.ma_50,
                                                  args.ma_200)),
               out |-> out, esiti |-> <<>>, cache |-> data_cache])

\* the prices and the means tried
Prezzi == 1..3

InitOps ==
    /\ callers = {}
    /\ symbols = {}
    /\ InitLocals
    /\ holdings_correnti = <<>>
    /\ target_allocation = NoTarget
    /\ risultati = <<>>
    /\ fase = "input"
    /\ \/ data_cache = <<>> /\ clock = 0
       \/ data_cache = Warm /\ clock \in {CACHE_DURATION \div 2, CACHE_DURATION}
    /\ esiti = <<>>
    /\ risultato = <<>>
    /\ out = <<>>
    /\ \/ /\ op \in {"tool_calcola_rsi", "tool_calcola_momentum"}
          /\ args \in {[ticker |-> tk, periodo |-> 14] : tk \in {"A", "B"}}
       \/ /\ op = "tool_calcola_macd"
          /\ args \in {[ticker |-> tk] : tk \in {"A", "B"}}
       \/ /\ op = "tool_ottieni_quote_ora"
          /\ args \in {[tickers |-> s] :
                          s \in UNION {[1..n -> {"A", "B"}] : n \in 0..2}}
       \/ /\ op = "tool_valuta_portafoglio"
          /\ args \in {[holdings |-> h] : h \in Portafogli}
       \/ /\ op = "tool_proponi_portafoglio"
          /\ args \in {[capitale |-> 10000, obiettivo |-> o, orizzonte |-> "medio",
                        rischio |-> r] :
                          o \in {"bilanciato", "crescita", "reddito", "altro"},
                          r \in {"conservativo", "moderato", "aggressivo"}}
       \/ /\ op = "tool_crea_portafoglio"
          /\ args \in {[nome |-> n, holdings |-> h, meta |-> m] :
                          n \in {"", "core"}, h \in Portafogli,
                          m \in {NoMeta, [some |-> TRUE, val |-> [autore |-> "x"]]}}
       \/ /\ op = "tool_bilancia_portafoglio"
          /\ args \in {[holdings_correnti |-> hc, target_allocation |-> ta] :
                          hc \in HoldingSets,
                          ta \in {NoTarget, [some |-> TRUE, val |-> EsempioTarget]}}
       \/ /\ op = "analisi_trend"
          /\ args \in {[prezzo |-> p, ma_50 |-> a, ma_200 |-> b] :
                          p \in Prezzi, a \in Prezzi \cup {NaN}, b \in Prezzi \cup {NaN}}

NextOps ==
    \/ ToolCalcolaRsi
    \/ ToolCalcolaMomentum
    \/ ToolCalcolaMacd
    \/ ToolOttieniQuoteOra
    \/ ToolValutaPortafoglio
    \/ ToolProponiPortafoglio
    \/ ToolCreaPortafoglio
    \/ ToolBilanciaPortafoglio
    \/ AnalisiTrend

SpecOps == InitOps /\ [][NextOps]_vars

(***************************************************************************)
(* Properties of get_cached_data, checked under Spec.                      *)
(***************************************************************************)
\* the step in which the call of p ends, by a return or by an exception
Completes(p) ==
    /\ pc[p] \notin {"idle", "returned", "raised"}
    /\ pc'[p] \in {"returned", "raised"}

Entry(d, i, t) == [df |-> d, info |-> i, timestamp |-> t]

\* C1: a call that finds an entry for its key with now - fetched_at < 300
\* invokes the data source zero times, returns exactly the stored series
\* and info, and leaves the cache unchanged.
C1_CacheHit ==
    [][\A p \in Procs :
        LET key == ticker[p] IN
        ( /\ pc[p] = "lookup"
          /\ pc'[p] # "lookup"
          /\ key \in DOMAIN data_cache
          /\ now[p] - data_cache[key].timestamp < CACHE_DURATION )
        => /\ pc'[p] = "returned"
           /\ nfetch'[p] = 0
           /\ ret'[p] = [df |-> data_cache[key].df, info |-> data_cache[key].info]
           /\ data_cache' = data_cache]_vars

\* a call has returned a stored, non-empty series that was 150 seconds old
C1_Witness ==
    \E p \in Procs :
        /\ pc[p] = "returned"
        /\ seen[p] = "hit"
        /\ nfetch[p] = 0
        /\ ticker[p] \in DOMAIN data_cache
        /\ now[p] - data_cache[ticker[p]].timestamp = 150
        /\ ~ret[p].df.empty
        /\ ret[p] = [df |-> data_cache[ticker[p]].df,
                     info |-> data_cache[ticker[p]].info]

\* C2: a call for a key with no entry, or with an entry that is 300 seconds
\* old or more, ends by returning what it fetched (never the old entry)
\* after one run of the fetch, with the whole entry replaced by the new
\* series and info stamped with the time of the call, so that a read that
\* follows at once is a hit; and no step removes an entry.
C2_MissReplaces ==
    [][/\ \A p \in Procs :
            (Completes(p) /\ seen'[p] \in {"miss", "stale"})
            => /\ pc'[p] = "returned"
               /\ nfetch'[p] = 1
               /\ ret'[p] = [df |-> df[p], info |-> info[p]]
               /\ ticker[p] \in DOMAIN data_cache'
               /\ data_cache'[ticker[p]] = Entry(df[p], info[p], now[p])
               /\ IsFresh(now[p], data_cache'[ticker[p]])
       /\ DOMAIN data_cache \subseteq DOMAIN data_cache']_vars

\* C3: the fetch part of get_cached_data never raises, whatever the
\* provider does.
C3_NeverRaises == \A p \in Procs : pc[p] # "raised"

\* C4: when the fetch has failed for the primary symbol and for every
\* suffix tried (no attempt gave a series and its metadata), the call
\* stores an empty series under the key, stamped with the time of the
\* call, and returns it.
C4_FailureCached ==
    [][\A p \in Procs :
        (Completes(p) /\ seen'[p] \in {"miss", "stale"} /\ ~attemptOk'[p])
        => /\ pc'[p] = "returned"
           /\ ret'[p].df.empty
           /\ ticker[p] \in DOMAIN data_cache'
           /\ data_cache'[ticker[p]].df.empty
           /\ data_cache'[ticker[p]].timestamp = now[p]]_vars

\* C5: a call that has fetched tries no suffix when the primary series is
\* not empty; otherwise it tries the suffixes in order and none after the
\* first whose series is not empty, and returns that series with the
\* metadata of the same symbol variant.
C5_SuffixFallback ==
    \A p \in Procs :
        (pc[p] = "returned" /\ seen[p] \in {"miss", "stale"})
        => /\ (~ret[p].df.empty /\ ret[p].df.sym = 0) => lastTried[p] = 0
           /\ firstData[p] # 0
                => /\ lastTried[p] = firstData[p]
                   /\ ret[p].df = DataDF(firstData[p])
           /\ ~ret[p].df.empty => ret[p].info = InfoOf(ret[p].df.sym)

\* every change of the cache is the write of one call: the key of that call
\* gets the series, the info and the time of that call, and nothing else
\* changes
WholeWrite ==
    data_cache' # data_cache
    => \E p \in Procs :
          /\ pc[p] = "store"
          /\ pc'[p] = "returned"
          /\ DOMAIN data_cache' = (DOMAIN data_cache) \cup {ticker[p]}
          /\ data_cache'[ticker[p]] = Entry(ret'[p].df, ret'[p].info, now[p])
          /\ \A k \in DOMAIN data_cache : k # ticker[p] => data_cache'[k] = data_cache[k]
          /\ lastWriter'[ticker[p]] = p

\* the entry of a key is what its last writer wrote and returned
LastWriterWins ==
    \A k \in DOMAIN data_cache :
        LET w == lastWriter[k] IN
        /\ w \in Procs
        /\ (pc[w] = "returned" /\ ticker[w] = k /\ seen[w] # "hit")
            => data_cache[k] = Entry(ret[w].df, ret[w].info, now[w])

\* C6: calls for the same missing or expired key may each fetch and each
\* write; every write puts the series, the info and the timestamp of one
\* call, never a mix, and the entry is what the last writer wrote.
C6_LastWriterWins == [][WholeWrite]_vars /\ []LastWriterWins

\* both callers missed the same key and fetched different results; the
\* entry is the one of c1, which wrote last
C6_Witness ==
    /\ pc["c1"] = "returned" /\ pc["c2"] = "returned"
    /\ ticker["c1"] = ticker["c2"]
    /\ seen["c1"] = "miss" /\ seen["c2"] = "miss"
    /\ ret["c1"] # ret["c2"]
    /\ ret["c1"].info # ret["c2"].info
    /\ lastWriter[ticker["c1"]] = "c1"
    /\ data_cache[ticker["c1"]] = Entry(ret["c1"].df, ret["c1"].info, now["c1"])

(***************************************************************************)
(* Properties of bilancia_portafoglio, checked under SpecBilancia.         *)
(***************************************************************************)
Done == fase = "done"
TargetInUse == Target(holdings_correnti, target_allocation)
AllTickers == Union(holdings_correnti, TargetInUse)
\* drift = target% - current%, a missing ticker counting as 0
Drift(t) == Get(TargetInUse, t) - Get(holdings_correnti, t)
Drifting == {t \in AllTickers : Abs(Drift(t)) > 1 * Pct}
Ops == risultati.operazioni_suggerite
OpsOf(t) == {i \in 1..Len(Ops) : Ops[i].ticker = t}

RECURSIVE SumOver(_)
SumOver(S) ==
    IF S = {} THEN 0
    ELSE LET t == CHOOSE x \in S : TRUE IN Abs(Drift(t)) + SumOver(S \ {t})
\* the total drift: the sum of |drift| over the tickers that drift by more
\* than 1.0
TotalDrift == SumOver(Drifting)

ActionsAsClaimed(Amount(_)) ==
    /\ \A t \in AllTickers : Cardinality(OpsOf(t)) = IF t \in Drifting THEN 1 ELSE 0
    /\ \A i \in 1..Len(Ops) :
        LET d == Drift(Ops[i].ticker) IN
        /\ Ops[i].ticker \in Drifting
        /\ d > 0 => Ops[i].azione = "ACQUISTA" /\ Ops[i].percentuale = Amount(d)
        /\ d < 0 => Ops[i].azione = "VENDI" /\ Ops[i].percentuale = Amount(Abs(d))
        /\ Ops[i].priorita = IF Abs(d) > 10 * Pct THEN "Alta"
                             ELSE IF Abs(d) > 5 * Pct THEN "Media" ELSE "Bassa"

IsEsempio ==
    /\ holdings_correnti = EsempioCorrente
    /\ target_allocation = [some |-> TRUE, val |-> EsempioTarget]

SellA == [ticker |-> "A", azione |-> "VENDI", percentuale |-> 10 * Pct,
          priorita |-> "Media"]
BuyB == [ticker |-> "B", azione |-> "ACQUISTA", percentuale |-> 10 * Pct,
         priorita |-> "Media"]

\* rebalance({A:60,B:40},{A:50,B:50}): SELL A 10 Medium and BUY B 10 Medium,
\* total drift 20, verdict 'rebalance now'
EsempioAsClaimed ==
    IsEsempio =>
        /\ Ops \in {<<SellA, BuyB>>, <<BuyB, SellA>>}
        /\ risultati.analisi.drift_totale = 20 * Pct
        /\ risultati.analisi.consiglio = "Ribilancia ora"

\* C8 as stated: exactly one action for each ticker of the union whose
\* |drift| > 1.0 and none for the others; ACQUISTA of drift when drift > 0,
\* VENDI of |drift| when drift < 0; priority Alta when |drift| > 10, Media
\* when 5 < |drift| <= 10, Bassa otherwise; and the example of the
\* specification.
C8_ActionsOfDrift ==
    Done => ActionsAsClaimed(LAMBDA d : d) /\ EsempioAsClaimed

\* C8 as amended: the same, the percentage of an action being the drift
\* rounded to two decimals (round(|drift|, 2)), which is the drift itself
\* only when the drift is a whole number of hundredths.
C8_ActionsOfRoundedDrift ==
    Done => ActionsAsClaimed(Round2) /\ EsempioAsClaimed

\* the example of the specification, with its two actions
C8_Witness ==
    /\ Done
    /\ IsEsempio
    /\ Ops \in {<<SellA, BuyB>>, <<BuyB, SellA>>}

\* C9: in the action list, the |drift| of each action is greater than or
\* equal to the |drift| of the action after it.
C9_Descending ==
    Done => \A i \in 1..(Len(Ops) - 1) :
                Abs(Drift(Ops[i].ticker)) >= Abs(Drift(Ops[i + 1].ticker))

\* three actions, the first two tied and the last one smaller
C9_Witness ==
    /\ Done
    /\ Len(Ops) = 3
    /\ Abs(Drift(Ops[1].ticker)) = Abs(Drift(Ops[2].ticker))
    /\ Abs(Drift(Ops[2].ticker)) > Abs(Drift(Ops[3].ticker))

\* C10: numero_operazioni is the number of actions, the commission cost is
\* twice that, necessita_ribilanciamento is true exactly when the total
\* drift is > 10, the verdict is 'Ribilancia ora' above 15, 'Ribilancia tra
\* qualche mese' above 10 and up to 15, 'Non necessario' otherwise; so
\* necessita_ribilanciamento is false exactly when the verdict is 'Non
\* necessario'.
C10_Summary ==
    Done =>
        LET a == risultati.analisi IN
        /\ a.numero_operazioni = Len(Ops)
        /\ a.costo_stimato_commissioni = 2 * a.numero_operazioni
        /\ a.necessita_ribilanciamento = (TotalDrift > 10 * Pct)
        /\ a.consiglio = IF TotalDrift > 15 * Pct THEN "Ribilancia ora"
                         ELSE IF TotalDrift > 10 * Pct
                              THEN "Ribilancia tra qualche mese"
                              ELSE "Non necessario"
        /\ (a.necessita_ribilanciamento = FALSE) = (a.consiglio = "Non necessario")

\* a total drift of exactly 15 over three actions: the middle verdict
C10_Witness ==
    /\ Done
    /\ TotalDrift = 15 * Pct
    /\ Len(Ops) = 3
    /\ risultati.analisi.costo_stimato_commissioni = 6
    /\ risultati.analisi.necessita_ribilanciamento = TRUE
    /\ risultati.analisi.consiglio = "Ribilancia tra qualche mese"

(***************************************************************************)
(* Properties of the portfolio operations and of the tool entry points,    *)
(* checked under SpecOps.                                                  *)
(***************************************************************************)
\* the step in which the operation called name runs
Runs(name) == op = name /\ fase = "input" /\ fase' = "done"
\* the operation called name has run
Ran(name) == op = name /\ fase = "done"

EntryOf(tk) == risultato.val.analisi_per_asset[tk]
\* the weight given for ticker tk
PesoOf(tk) ==
    args.holdings[CHOOSE i \in 1..Len(args.holdings) : args.holdings[i].ticker = tk].peso
\* the passes of the loop that ended with the series and its indicators
Succeeded == {i \in 1..Len(esiti) : esiti[i].kind = "ok"}

\* C12: valuta_portafoglio always returns; analisi_per_asset has exactly
\* one entry for each ticker of the holdings; the entry of a ticker whose
\* fetch raised, whose series is empty or whose indicators raised is an
\* error marker, and the entry of every other ticker holds its weight and
\* the indicators of its own series, whatever happened to the others.
C12_PerAssetIsolation ==
    Ran("tool_valuta_portafoglio") =>
        /\ ~risultato.raised
        /\ DOMAIN risultato.val.analisi_per_asset = Range(Keys(args.holdings))
        /\ Len(esiti) = Len(args.holdings)
        /\ \A i \in 1..Len(esiti) :
            LET e == esiti[i] IN
            /\ e.ticker = args.holdings[i].ticker
            /\ e.kind \in {"fetch_raised", "empty", "indicator_raised"}
                    => DOMAIN EntryOf(e.ticker) = {"error"}
            /\ e.kind = "ok"
                    => EntryOf(e.ticker) =
                          [peso_percentuale |-> PesoOf(e.ticker),
                           prezzo_corrente |-> 100 + e.df.sym,
                           volatilita_annua |-> 1 + e.df.sym,
                           settore |-> e.info.sym]

\* the fetch of the first ticker raised, the series of the second is empty,
\* and the third has its indicators
C12_Witness ==
    /\ Ran("tool_valuta_portafoglio")
    /\ Len(esiti) = 3
    /\ esiti[1].kind = "fetch_raised"
    /\ esiti[2].kind = "empty"
    /\ esiti[3].kind = "ok"
    /\ DOMAIN EntryOf(esiti[1].ticker) = {"error"}
    /\ DOMAIN EntryOf(esiti[2].ticker) = {"error"}
    /\ "prezzo_corrente" \in DOMAIN EntryOf(esiti[3].ticker)

\* the metrics section of the result of valuta_portafoglio
Metriche == risultato.val.metriche_portafoglio
\* the weights of the holdings whose return series was retrieved, in order
PesiRiusciti == [k \in 1..Len(SelectSeq(esiti, LAMBDA e : e.kind = "ok")) |->
                    PesoOf(SelectSeq(esiti, LAMBDA e : e.kind = "ok")[k].ticker)]
\* their volatilities
VolRiusciti == [k \in 1..Len(SelectSeq(esiti, LAMBDA e : e.kind = "ok")) |->
                   1 + SelectSeq(esiti, LAMBDA e : e.kind = "ok")[k].df.sym]

\* C13: the metrics of the portfolio are computed exactly when at least 2
\* holdings had their return series retrieved; each series retrieved is
\* attributed to its own ticker; and the weights, the volatilities and the
\* asset count that enter the weighted volatility, the effective asset
\* count and the diversification score are those of the holdings that
\* succeeded.
C13_AggregateOverSucceeding ==
    Ran("tool_valuta_portafoglio") =>
        /\ (DOMAIN Metriche # {}) <=> (Cardinality(Succeeded) >= 2)
        /\ DOMAIN Metriche # {} =>
            /\ \A c \in Range(Metriche.correlazione_media.colonne) :
                    c.ticker = c.rend.of
            /\ Metriche.volatilita_portafoglio.pesi = PesiRiusciti
            /\ Metriche.volatilita_portafoglio.vol = VolRiusciti
            /\ Metriche.numero_effettivo_asset.pesi = PesiRiusciti
            /\ Metriche.diversificazione_score.pesi = PesiRiusciti
            /\ Metriche.diversificazione_score.n = Cardinality(Succeeded)

\* the analysis section of the result of proponi_portafoglio
AnalisiAssets == risultato.val.analisi_assets
\* the template selected by the profile given
Selezionata == Allocazione(args.rischio, args.obiettivo)

\* C14: proponi_portafoglio always returns a proposal; every ticker of the
\* template selected has an entry in analisi_assets; the entry is an error
\* marker when the fetch of the ticker raised or its series is empty, and
\* the analysis computed from its series when the series was obtained and
\* analysed.
C14_ProponiPerTicker ==
    Ran("tool_proponi_portafoglio") =>
        /\ ~risultato.raised
        /\ Len(esiti) = Len(Selezionata)
        /\ DOMAIN AnalisiAssets = Range(Keys(Selezionata))
        /\ \A i \in 1..Len(esiti) :
            LET e == esiti[i] IN
            /\ e.ticker = Selezionata[i].ticker
            /\ e.kind \in {"fetch_raised", "empty"}
                    => DOMAIN AnalisiAssets[e.ticker] = {"error"}
            /\ e.kind = "ok"
                    => /\ "error" \notin DOMAIN AnalisiAssets[e.ticker]
                       /\ AnalisiAssets[e.ticker].prezzo = 100 + e.df.sym

\* the tool entry points
Tools == {"tool_calcola_rsi", "tool_calcola_momentum", "tool_calcola_macd",
          "tool_ottieni_quote_ora", "tool_valuta_portafoglio",
          "tool_proponi_portafoglio", "tool_crea_portafoglio",
          "tool_bilancia_portafoglio"}

\* C15: every tool entry point, whatever its arguments and whatever fails
\* in the provider or in the operation it wraps, returns a mapping (no
\* exception leaves it) that either has no top-level "error" key or
\* consists of the key "error" alone.
C15_ToolBoundary ==
    (fase = "done" /\ op \in Tools) =>
        /\ ~out.raised
        /\ "error" \in DOMAIN out.val => DOMAIN out.val = {"error"}
        /\ (risultato.raised \/ \E i \in 1..Len(esiti) : esiti[i].kind = "raise")
                => DOMAIN out.val = {"error"}

\* the provider raised inside tool_calcola_rsi, and the tool returned the
\* error mapping
C15_Witness ==
    /\ Ran("tool_calcola_rsi")
    /\ esiti[1].kind = "fetch_raised"
    /\ risultato.raised
    /\ ~out.raised
    /\ out.val = [error |-> risultato.exc]

(***************************************************************************)
(* Further properties of bilancia_portafoglio, checked under SpecBilancia. *)
(***************************************************************************)
\* C16: when no target is given, the target used has exactly the tickers of
\* the current holdings, each with weight 100 / n for n current tickers, so
\* no action names a ticker outside the current holdings; with no current
\* holding the target and the plan are empty and the call does not fail.
C16_DefaultTarget ==
    (Done /\ ~target_allocation.some) =>
        LET n == Cardinality(DOMAIN holdings_correnti) IN
        /\ DOMAIN risultati.target_allocation = DOMAIN holdings_correnti
        /\ DOMAIN risultati.nuova_allocazione = DOMAIN holdings_correnti
        /\ \A t \in DOMAIN holdings_correnti :
                risultati.target_allocation[t] * n = 100 * Pct
        /\ \A i \in 1..Len(Ops) : Ops[i].ticker \in DOMAIN holdings_correnti
        /\ n = 0 => Ops = <<>> /\ risultati.analisi.numero_operazioni = 0

\* three holdings and no target: each gets the target 33.33..., and the
\* holdings away from it are acted on
C16_Witness ==
    /\ Done
    /\ ~target_allocation.some
    /\ Cardinality(DOMAIN holdings_correnti) = 3
    /\ \A t \in DOMAIN holdings_correnti : risultati.target_allocation[t] * 3 = 100 * Pct
    /\ Len(Ops) = 3

(***************************************************************************)
(* Further properties of the portfolio operations, checked under SpecOps.  *)
(***************************************************************************)
\* the sum of the weights given to valuta_portafoglio
SommaPesi == Sum([i \in 1..Len(args.holdings) |-> args.holdings[i].peso])

\* C17: the result of valuta_portafoglio has a warning field exactly when
\* |sum(weights) - 100| > 0.1; with or without it the evaluation is
\* carried out: the result has its composition, one entry per holding and
\* the metrics section, the latter filled exactly when 2 series or more
\* were retrieved.
C17_WeightWarning ==
    Ran("tool_valuta_portafoglio") =>
        LET lontano == SommaPesi - 100 * Pct > 30 \/ 100 * Pct - SommaPesi > 30
            sezioni == {"composizione", "asset_count", "analisi_per_asset",
                        "metriche_portafoglio"}
        IN  /\ ~risultato.raised
            /\ ("warning" \in DOMAIN risultato.val) <=> lontano
            /\ DOMAIN risultato.val = sezioni \cup (IF lontano THEN {"warning"} ELSE {})
            /\ lontano => risultato.val.warning.valori = <<SommaPesi>>
            /\ risultato.val.composizione = args.holdings
            /\ DOMAIN risultato.val.analisi_per_asset = Range(Keys(args.holdings))
            /\ (DOMAIN Metriche # {}) <=> (Cardinality(Succeeded) >= 2)
            /\ out.val = risultato.val

\* three holdings that sum to 105: the warning is there, and so are the
\* three entries and the metrics
C17_Witness ==
    /\ Ran("tool_valuta_portafoglio")
    /\ SommaPesi = 105 * Pct
    /\ "warning" \in DOMAIN risultato.val
    /\ Cardinality(DOMAIN risultato.val.analisi_per_asset) = 3
    /\ Cardinality(Succeeded) = 3
    /\ DOMAIN Metriche # {}

\* C18: for every price, MA50 and MA200, analisi_trend answers Rialzista
\* Forte (strong uptrend) iff price > MA50 > MA200; otherwise Rialzista
\* (uptrend) iff price > MA50; otherwise Ribassista Forte (strong
\* downtrend) iff price < MA50 < MA200; otherwise Ribassista (downtrend).
\* The answer is one of the four labels, and every case that the first
\* three rules leave, price = MA50 and price < MA50 with MA50 >= MA200
\* among them, is Ribassista.
C18_TrendPrecedence ==
    Ran("analisi_trend") =>
        LET p == args.prezzo
            a == args.ma_50
            b == args.ma_200
            known(x) == x # NaN
            above == known(a) /\ p > a
            below == known(a) /\ p < a
            rising == known(a) /\ known(b) /\ a > b
            falling == known(a) /\ known(b) /\ a < b
            trend == risultato.val.trend
        IN  /\ trend \in {"Rialzista Forte", "Rialzista", "Ribassista Forte",
                          "Ribassista"}
            /\ trend = "Rialzista Forte" <=> (above /\ rising)
            /\ trend = "Rialzista" <=> (above /\ ~rising)
            /\ trend = "Ribassista Forte" <=> (below /\ falling)
            /\ trend = "Ribassista" <=> (~above /\ ~(below /\ falling))
            /\ (known(a) /\ p = a) => trend = "Ribassista"
            /\ (below /\ known(b) /\ a >= b) => trend = "Ribassista"

\* the price is under MA50 and MA50 equals MA200: no rule but the last
\* applies
C18_Witness ==
    /\ Ran("analisi_trend")
    /\ args.prezzo < args.ma_50
    /\ args.ma_50 = args.ma_200
    /\ risultato.val.trend = "Ribassista"

Emitted == {Ops[i].ticker : i \in 1..Len(Ops)}
\* the sum of the |drift| of the actions emitted
EmittedDrift == SumOver(Emitted)

Moves(p) == pc'[p] # pc[p] \/ suffix'[p] # suffix[p]

\* the step in which the call of p fails
Fails(p) == pc[p] # "raised" /\ pc'[p] = "raised"

\* a call that fails has written nothing: no step of a call before its
\* write changes the cache, and the call fails before its write
NoWriteBeforeStore ==
    \A p \in Procs :
        /\ (Moves(p) /\ pc[p] # "store") => data_cache' = data_cache
        /\ Fails(p)
            => /\ pc[p] \in {"history", "info"}
               /\ data_cache' = data_cache
               /\ (callers = {p} /\ seen[p] = "miss")
                    => ticker[p] \notin DOMAIN data_cache'
               /\ (callers = {p} /\ seen[p] = "stale")
                    => /\ ticker[p] \in DOMAIN data_cache'
                       /\ ~IsFresh(now[p], data_cache'[ticker[p]])

\* after the failure of the only caller, a call for the same key at any
\* later time finds no fresh entry and fetches
FetchesAgain ==
    \A p \in Procs :
        (callers = {p} /\ pc[p] = "raised")
        => \/ ticker[p] \notin DOMAIN data_cache
           \/ ~IsFresh(clock, data_cache[ticker[p]])

\* C21: when the data source raises during a call on a missing or stale
\* key, the call leaves the cache as it was: no entry is created for a
\* missing key, a stale entry keeps its series, info and timestamp, and
\* the next call for the key fetches again.
C21_RaiseLeavesCache == [][NoWriteBeforeStore]_vars /\ []FetchesAgain

\* the only caller found an entry 300 seconds old, the data source raised,
\* and the entry is still there with its series and its timestamp
C21_Witness ==
    /\ callers = {"c1"}
    /\ pc["c1"] = "raised"
    /\ seen["c1"] = "stale"
    /\ ticker["c1"] \in DOMAIN data_cache
    /\ ~data_cache[ticker["c1"]].df.empty
    /\ now["c1"] - data_cache[ticker["c1"]].timestamp = CACHE_DURATION

\* C22: for every cache key the stored timestamp never decreases, across
\* any sequence and any interleaving of get_cached_data calls under a
\* clock that does not go back; a newer entry is never replaced by one
\* that expires earlier.
C22_TimestampMonotone ==
    [][/\ clock' >= clock
       /\ \A k \in DOMAIN data_cache :
            /\ k \in DOMAIN data_cache'
            /\ data_cache'[k].timestamp >= data_cache[k].timestamp]_vars

====
